---- MODULE Spec2Model ----
(***************************************************************************)
(* The plate compositor of app.py (OregonPlateGenerator): the text         *)
(* normalisation, the lazily materialised background asset, the glyph      *)
(* spacing layout, and generate_plate run by several request threads of    *)
(* the Flask server against one asset file.                                *)
(***************************************************************************)
EXTENDS Integers, Sequences, FiniteSets, TLC

\* ------------------------------------------------------------------ bounds
NumCalls == 2
MaxTextLen == 3
MaxGlyphWidth == 2
MaxGlyphHeight == 2

\* ------------------------------------------------------ program constants
StdTextX == 490
StdTextY == 180
StdLetterSpacing == 8
StdMaxChars == 10
YOffset == 25
PlaceholderWidth == 950
PlaceholderHeight == 475
NumFontPaths == 4

\* ------------------------------------------------------------------ values
Procs == 1..NumCalls

\* Characters a request's text is made of, and their upper-case forms.
Alphabet == {"a", " "}
Glyphs == {"A", " "}

RECURSIVE SeqsUpTo(_)
SeqsUpTo(n) ==
    IF n = 0 THEN {<<>>}
    ELSE LET shorter == SeqsUpTo(n - 1)
         IN  shorter \cup {Append(s, c) : s \in {t \in shorter : Len(t) = n - 1}, c \in Alphabet}

\* The texts the layout specification feeds to generate_plate.
Texts == SeqsUpTo(MaxTextLen)

\* The texts the concurrent specification feeds to generate_plate.
RequestTexts == {<<"a">>, <<" ", "a", "a">>}

\* The layout ids a request may carry: the registered one and one that is not.
PlateTypes == {"standard", "custom"}

\* plate_config['standard'] as the constructor defines it.
StandardConfig ==
    [text_position |-> <<StdTextX, StdTextY>>,
     letter_spacing |-> StdLetterSpacing,
     max_chars |-> StdMaxChars]

\* Layout configurations of the data model: the program's own, and the same
\* with no letter spacing and with a limit short enough for the texts above
\* to exceed it.
LayoutConfigs ==
    {[StandardConfig EXCEPT !.letter_spacing = s, !.max_chars = m] :
        s \in {0, StdLetterSpacing}, m \in {MaxTextLen - 1, StdMaxChars}}

\* The font candidates of generate_plate, in the order they are tried.
FontPaths == 1..NumFontPaths

\* Which candidates load in an environment: none, the Linux path, the
\* Windows path and the local file.
FontEnvs == {{}, {3}, {1, 4}}

NoImage == [kind |-> "none", size |-> <<0, 0>>, glyphs |-> <<>>]

\* What create_placeholder_image saves: a 950 x 475 canvas with no plate text.
PlaceholderImage ==
    [kind |-> "image", size |-> <<PlaceholderWidth, PlaceholderHeight>>, glyphs |-> <<>>]

\* A clean base image supplied beside the program; its size is its own.
SuppliedImage ==
    [kind |-> "image", size |-> <<2 * PlaceholderWidth, 2 * PlaceholderHeight>>, glyphs |-> <<>>]

VARIABLES
    plate_config,   \* self.plate_config: layout id -> configuration
    installed,      \* the font candidates that load in this environment
    measure,        \* glyph -> bbox width in the font the environment resolves
    height,         \* bbox height of a non-empty text in that font
    asset,          \* the file static/images/oregon_standard_clean.png
    writer,         \* the call whose img.save truncated the file last (0: none)
    calls,          \* per request thread: the generate_plate call it runs
    ref             \* a returned warm call, kept to compare later calls with

vars == <<plate_config, installed, measure, height, asset, writer, calls, ref>>

\* ------------------------------------------------------- text normalisation
\* str.upper() on one character.
UpperChar(c) == IF c = "a" THEN "A" ELSE c

Upper(s) == [i \in 1..Len(s) |-> UpperChar(s[i])]

IsSpace(c) == c = " "

RECURSIVE LStrip(_)
LStrip(s) == IF s # <<>> /\ IsSpace(Head(s)) THEN LStrip(Tail(s)) ELSE s

RECURSIVE RStrip(_)
RStrip(s) ==
    IF s # <<>> /\ IsSpace(s[Len(s)]) THEN RStrip(SubSeq(s, 1, Len(s) - 1)) ELSE s

\* str.strip()
Strip(s) == RStrip(LStrip(s))

\* A normalisation that forgets to strip.
NormalizeNoStrip(text) == Upper(text)

\* line 117: text.upper().strip()
Normalize(text) == Strip(Upper(text))

\* A cut that keeps one character too many.
TruncateOffByOne(text, max_chars) ==
    IF Len(text) > max_chars THEN SubSeq(text, 1, max_chars + 1) ELSE text

\* lines 118-119: text[:max_chars] when the text is longer
Truncate(text, max_chars) ==
    IF Len(text) > max_chars THEN SubSeq(text, 1, max_chars) ELSE text

\* ------------------------------------------------------------------- fonts
\* lines 133-152: the first candidate that loads, else the built-in font (0).
ResolveFont ==
    LET ok == installed \cap FontPaths
    IN  IF ok = {} THEN 0 ELSE CHOOSE i \in ok : \A j \in ok : i <= j

RECURSIVE SumSeq(_)
SumSeq(s) == IF s = <<>> THEN 0 ELSE Head(s) + SumSeq(Tail(s))

\* draw.textbbox((0, 0), char, font): bbox[2] - bbox[0] of one character.
CharWidth(c) == measure[c]

\* draw.textbbox((0, 0), text, font) of a whole text: its width and height.
TextWidth(text) == SumSeq([i \in 1..Len(text) |-> CharWidth(text[i])])

TextHeight(text) == IF text = <<>> THEN 0 ELSE height

\* draw.text: an empty string leaves the image as it is.
Paint(img, s, x, y, font) ==
    IF s = <<>> THEN img
    ELSE [img EXCEPT !.glyphs = Append(@, [s |-> s, x |-> x, y |-> y, font |-> font])]

\* ------------------------------------------------------------ glyph layout
\* lines 179-184: the measured width of every character of the text, in order.
CharWidths(text) == [i \in 1..Len(text) |-> CharWidth(text[i])]

\* lines 178-186: the widths summed, plus spacing * (len(text) - 1).
TotalWidth(text, spacing) == SumSeq(CharWidths(text)) + spacing * (Len(text) - 1)

\* A start that forgets to halve the width.
StartXNotHalved(x, total_width) == x - total_width

\* line 189: x - total_width // 2
StartX(x, total_width) == x - (total_width \div 2)

\* An advance that forgets the letter spacing.
AdvanceNoSpacing(current_x, char_width, spacing) == current_x + char_width

\* line 193: current_x += char_widths[i] + spacing
Advance(current_x, char_width, spacing) == current_x + char_width + spacing

\* A vertical position that centres on the measured height.
GlyphYCentred(y) == y - (height \div 2)

\* line 192: every character is drawn at y - 25
GlyphY(y) == y - YOffset

\* lines 191-193: the drawing loop, from character i at current_x.
RECURSIVE DrawChars(_, _, _, _, _, _, _, _)
DrawChars(img, text, char_widths, i, current_x, y, spacing, font) ==
    IF i > Len(text) THEN img
    ELSE DrawChars(Paint(img, <<text[i]>>, current_x, GlyphY(y), font),
                   text, char_widths, i + 1,
                   Advance(current_x, char_widths[i], spacing), y, spacing, font)

\* lines 172-193: the image drawn on, and the locals the layout computed.
draw_text_with_spacing(img, text, position, font, spacing) ==
    LET char_widths == CharWidths(text)
        total_width == TotalWidth(text, spacing)
        current_x == StartX(position[1], total_width)
    IN  [img |-> DrawChars(img, text, char_widths, 1, current_x, position[2], spacing, font),
         branch |-> "spaced",
         char_widths |-> char_widths,
         total_width |-> total_width,
         x0 |-> current_x]

\* lines 158-168: no letter spacing, the text drawn whole, centred on its bbox.
draw_text_plain(img, text, position, font) ==
    LET text_width == TextWidth(text)
        text_height == TextHeight(text)
        x == position[1] - (text_width \div 2)
        y == position[2] - (text_height \div 2)
    IN  [img |-> Paint(img, text, x, y, font),
         branch |-> "plain",
         char_widths |-> <<>>,
         total_width |-> text_width,
         x0 |-> x]

\* lines 128-170: copy the base image, resolve the font, draw the text.
Compose(base_img, text, config) ==
    IF config.letter_spacing > 0
    THEN draw_text_with_spacing(base_img, text, config.text_position, ResolveFont,
                                config.letter_spacing)
    ELSE draw_text_plain(base_img, text, config.text_position, ResolveFont)

\* ------------------------------------------------------------------ calls
IdleCall ==
    [pc |-> "idle", text_in |-> <<>>, plate_type |-> "", text |-> <<>>,
     img |-> NoImage, error |-> "", warm |-> FALSE, opened |-> FALSE, saved |-> FALSE,
     branch |-> "", char_widths |-> <<>>, total_width |-> 0, x0 |-> 0]

\* A call that raised: no image is returned.
Raise(call, error) == [call EXCEPT !.pc = "failed", !.error = error, !.img = NoImage]

\* Image.open of the asset file (lines 123, 126): its header is read now, its
\* pixels when the image is copied. A file being written does not parse.
OpenAsset(call, first) ==
    IF asset.state = "complete"
    THEN [call EXCEPT !.pc = "copy", !.opened = TRUE, !.warm = first]
    ELSE IF asset.state = "missing"
    THEN [call EXCEPT !.pc = "placeholder", !.opened = TRUE]
    ELSE Raise([call EXCEPT !.opened = TRUE], "AssetError")

\* An entry that loads the base image before it looks the layout up.
EntryLoadFirst(text, plate_type) ==
    LET call == [IdleCall EXCEPT !.text_in = text, !.plate_type = plate_type]
        loaded == OpenAsset(call, TRUE)
    IN  IF plate_type \notin DOMAIN plate_config
        THEN Raise(loaded, "UnknownLayout")
        ELSE [loaded EXCEPT
                 !.text = Truncate(Normalize(text), plate_config[plate_type].max_chars)]

\* lines 109-123: the layout lookup, the text validation, the first Image.open.
Entry(text, plate_type) ==
    LET call == [IdleCall EXCEPT !.text_in = text, !.plate_type = plate_type]
    IN  IF plate_type \notin DOMAIN plate_config
        THEN Raise(call, "UnknownLayout")
        ELSE OpenAsset([call EXCEPT
                           !.text = Truncate(Normalize(text),
                                             plate_config[plate_type].max_chars)],
                       TRUE)

\* generate_plate(text, plate_type) is called on thread p.
Begin(p, text, plate_type) ==
    /\ calls[p].pc = "idle"
    /\ calls' = [calls EXCEPT ![p] = Entry(text, plate_type)]
    /\ UNCHANGED <<plate_config, installed, measure, height, asset, writer, ref>>

\* lines 124-125, 52-102: the file was not found; the placeholder is drawn and
\* img.save opens the asset file for writing, which empties it.
SaveBegin(p) ==
    /\ calls[p].pc = "placeholder"
    /\ asset' = [state |-> "partial", img |-> NoImage]
    /\ writer' = p
    /\ calls' = [calls EXCEPT ![p].pc = "saving", ![p].saved = TRUE]
    /\ UNCHANGED <<plate_config, installed, measure, height, ref>>

\* line 102: img.save has written its last byte. The file is whole when the
\* save that emptied it last ends; an earlier save's bytes are the same bytes.
SaveEnd(p) ==
    /\ calls[p].pc = "saving"
    /\ asset' = IF writer = p THEN [state |-> "complete", img |-> PlaceholderImage] ELSE asset
    /\ writer' = IF writer = p THEN 0 ELSE writer
    /\ calls' = [calls EXCEPT ![p].pc = "reopen"]
    /\ UNCHANGED <<plate_config, installed, measure, height, ref>>

\* line 126: Image.open again, after the placeholder was saved.
Reopen(p) ==
    /\ calls[p].pc = "reopen"
    /\ calls' = [calls EXCEPT ![p] = OpenAsset(@, FALSE)]
    /\ UNCHANGED <<plate_config, installed, measure, height, asset, writer, ref>>

\* lines 128-170 on thread p: base_img.copy() reads the pixels of the file as
\* it is now, the text is drawn on the copy and the copy is returned.
Composed(p) ==
    IF asset.state = "complete"
    THEN LET out == Compose(asset.img, calls[p].text, plate_config[calls[p].plate_type])
         IN  [calls[p] EXCEPT !.pc = "done",
                              !.img = out.img,
                              !.branch = out.branch,
                              !.char_widths = out.char_widths,
                              !.total_width = out.total_width,
                              !.x0 = out.x0]
    ELSE Raise(calls[p], "AssetError")

\* A drawing step that draws on the stored template itself and saves it.
DrawInPlace(p) ==
    /\ calls[p].pc = "copy"
    /\ calls' = [calls EXCEPT ![p] = Composed(p)]
    /\ asset' = IF asset.state = "complete" THEN [asset EXCEPT !.img = Composed(p).img] ELSE asset
    /\ UNCHANGED <<plate_config, installed, measure, height, writer, ref>>

Draw(p) ==
    /\ calls[p].pc = "copy"
    /\ calls' = [calls EXCEPT ![p] = Composed(p)]
    /\ UNCHANGED <<plate_config, installed, measure, height, asset, writer, ref>>

\* lines 202-227: the route hands the image or the error to the client and the
\* thread is free for the next request. With keep, the first warm call that
\* returned an image is remembered.
Return(p, keep) ==
    /\ calls[p].pc \in {"done", "failed"}
    /\ calls' = [calls EXCEPT ![p] = IdleCall]
    /\ ref' = IF keep /\ ~ref.set /\ calls[p].pc = "done" /\ calls[p].warm
              THEN [set |-> TRUE, text |-> calls[p].text_in,
                    plate_type |-> calls[p].plate_type, img |-> calls[p].img]
              ELSE ref
    /\ UNCHANGED <<plate_config, installed, measure, height, asset, writer>>

\* ---------------------------------------------------------- specifications
NoRef == [set |-> FALSE, text |-> <<>>, plate_type |-> "", img |-> NoImage]

\* The asset file when the first request arrives. The constructor (lines
\* 30, 45-50) saves the placeholder when the file is absent at start-up, but
\* the file lives in a store the program does not own: it can be absent again
\* when a request arrives, which is the case lines 124-126 handle. Otherwise
\* it holds the placeholder or a supplied clean image.
AssetStates ==
    {[state |-> "missing", img |-> NoImage],
     [state |-> "complete", img |-> PlaceholderImage],
     [state |-> "complete", img |-> SuppliedImage]}

\* NumCalls request threads; the registry holds the program's layout, or the
\* same layout without letter spacing.
Init ==
    /\ plate_config \in [{"standard"} -> {c \in LayoutConfigs : c.max_chars = StdMaxChars}]
    /\ installed \in {{}, {3}}
    /\ measure = [g \in Glyphs |-> IF IsSpace(g) THEN 1 ELSE MaxGlyphWidth]
    /\ height = MaxGlyphHeight
    /\ asset \in AssetStates
    /\ writer = 0
    /\ calls = [p \in Procs |-> IdleCall]
    /\ ref = NoRef

Next ==
    \E p \in Procs :
        \/ \E text \in RequestTexts, plate_type \in PlateTypes : Begin(p, text, plate_type)
        \/ SaveBegin(p)
        \/ SaveEnd(p)
        \/ Reopen(p)
        \/ Draw(p)
        \/ \E keep \in BOOLEAN : Return(p, keep)

Spec == Init /\ [][Next]_vars

\* One thread, every layout configuration, font metric and text of the bounds.
InitLayout ==
    /\ plate_config \in [{"standard"} -> LayoutConfigs]
    /\ installed \in FontEnvs
    /\ measure \in [Glyphs -> 0..MaxGlyphWidth]
    /\ height \in 1..MaxGlyphHeight
    /\ asset \in AssetStates
    /\ writer = 0
    /\ calls = [p \in Procs |-> IdleCall]
    /\ ref = NoRef

NextLayout ==
    \/ \E text \in Texts, plate_type \in PlateTypes : Begin(1, text, plate_type)
    \/ SaveBegin(1)
    \/ SaveEnd(1)
    \/ Reopen(1)
    \/ Draw(1)
    \/ Return(1, FALSE)

SpecLayout == InitLayout /\ [][NextLayout]_vars

\* ------------------------------------------------------------------ claims
Registered(call) == call.plate_type \in DOMAIN plate_config

ConfigOf(call) == plate_config[call.plate_type]

Returned(call) == call.pc = "done"

\* The characters an image's draw operations painted, in drawing order.
RECURSIVE DrawnText(_)
DrawnText(glyphs) == IF glyphs = <<>> THEN <<>> ELSE Head(glyphs).s \o DrawnText(Tail(glyphs))

PartialSum(widths, spacing, n) == SumSeq([j \in 1..n |-> widths[j] + spacing])

Abs(n) == IF n < 0 THEN -n ELSE n

\* C1: the characters generate_plate draws are uppercase(strip(T)) when that
\* has at most max_chars characters and its first max_chars characters
\* otherwise; never more than max_chars characters are drawn.
C1_DrawnTextIsTruncatedNormalisedText ==
    \A p \in Procs :
        Returned(calls[p]) =>
            LET want == Upper(Strip(calls[p].text_in))
                max_chars == ConfigOf(calls[p]).max_chars
                drawn == DrawnText(calls[p].img.glyphs)
            IN  /\ Len(drawn) <= max_chars
                /\ drawn = IF Len(want) <= max_chars THEN want ELSE SubSeq(want, 1, max_chars)

\* A returned call whose normalised text was longer than max_chars.
C1_Witness ==
    \E p \in Procs :
        /\ Returned(calls[p])
        /\ Len(Upper(Strip(calls[p].text_in))) > ConfigOf(calls[p]).max_chars
        /\ Len(DrawnText(calls[p].img.glyphs)) = ConfigOf(calls[p]).max_chars

\* C2: a call whose layout id is not registered fails with the unknown-layout
\* error and returns no image; it has opened no asset file, saved no
\* placeholder and drawn nothing.
C2_UnknownLayoutFailsBeforeAnyWork ==
    \A p \in Procs :
        (calls[p].pc # "idle" /\ ~Registered(calls[p])) =>
            /\ calls[p].pc = "failed"
            /\ calls[p].error = "UnknownLayout"
            /\ calls[p].img = NoImage
            /\ ~calls[p].opened
            /\ ~calls[p].saved

\* An unknown layout was refused while the asset file was absent: it stayed absent.
C2_Witness ==
    \E p \in Procs :
        /\ calls[p].pc = "failed"
        /\ calls[p].error = "UnknownLayout"
        /\ asset.state = "missing"

\* C3: simultaneous calls on an absent asset all succeed and leave one whole
\* asset file: no call for a registered layout fails, none finds a partly
\* written file, and once no save is running the saved file is whole.
C3_ConcurrentFirstUseIsSafe ==
    /\ \A p \in Procs : Registered(calls[p]) => calls[p].pc # "failed"
    /\ ((\E p \in Procs : calls[p].saved) /\ (\A p \in Procs : calls[p].pc # "saving"))
           => asset.state = "complete"

\* C4: a text that is empty after normalisation, with a registered layout,
\* does not fail and returns the background as it is stored: no glyph is drawn.
C4_EmptyTextReturnsBackground ==
    \A p \in Procs :
        (calls[p].pc # "idle" /\ Registered(calls[p]) /\ Strip(calls[p].text_in) = <<>>) =>
            /\ calls[p].pc # "failed"
            /\ Returned(calls[p]) =>
                   /\ calls[p].img.glyphs = <<>>
                   /\ calls[p].img = asset.img

\* A whitespace-only text was composed and returned.
C4_Witness ==
    \E p \in Procs :
        /\ Returned(calls[p])
        /\ calls[p].text_in # <<>>
        /\ Strip(calls[p].text_in) = <<>>

\* C5: for a drawn text of at least one character the span from the start x
\* to the start x plus the total width is symmetric about the anchor x within
\* one pixel, and the first character is drawn at the start x.
C5_SpanCentredOnAnchor ==
    \A p \in Procs :
        (Returned(calls[p]) /\ Len(calls[p].text) >= 1) =>
            LET anchor == ConfigOf(calls[p]).text_position[1]
                startX == calls[p].x0
                total == calls[p].total_width
            IN  /\ calls[p].img.glyphs[1].x = startX
                /\ Abs((anchor - startX) - (startX + total - anchor)) <= 1

\* A spaced text of several characters whose total width is odd.
C5_Witness ==
    \E p \in Procs :
        /\ Returned(calls[p])
        /\ calls[p].branch = "spaced"
        /\ Len(calls[p].text) >= 2
        /\ calls[p].total_width % 2 = 1

\* C6: once the asset file is whole, no step of any call changes it.
C6_MaterialisedAssetNeverChanges ==
    [][asset.state = "complete" => asset' = asset]_vars

\* C7: a returned call on a warm store with the text and layout id of an
\* earlier returned warm call has an image of the same size with the same
\* glyphs at the same positions, whatever calls ran in between.
C7_WarmCallsAreIdempotent ==
    \A p \in Procs :
        (/\ ref.set
         /\ Returned(calls[p])
         /\ calls[p].warm
         /\ calls[p].text_in = ref.text
         /\ calls[p].plate_type = ref.plate_type) =>
            /\ calls[p].img.size = ref.img.size
            /\ calls[p].img.glyphs = ref.img.glyphs

\* The remembered call's inputs were composed again, beside a call with another text.
C7_Witness ==
    \E p, q \in Procs :
        /\ ref.set
        /\ Returned(calls[p])
        /\ calls[p].warm
        /\ calls[p].text_in = ref.text
        /\ calls[p].plate_type = ref.plate_type
        /\ calls[p].img.glyphs # <<>>
        /\ Returned(calls[q])
        /\ calls[q].text_in # ref.text

\* C8: the total width of the spacing layout is the sum of the glyph widths
\* plus letter_spacing * (count - 1), the spacing term being zero for a count
\* of at most one; it is 0 for the empty text and never negative.
C8_TotalWidthOmitsSpacingUpToOneChar ==
    \A p \in Procs :
        (Returned(calls[p]) /\ calls[p].branch = "spaced") =>
            LET n == Len(calls[p].text)
                spacing == ConfigOf(calls[p]).letter_spacing
            IN  /\ calls[p].total_width =
                       SumSeq(calls[p].char_widths) + (IF n <= 1 THEN 0 ELSE spacing * (n - 1))
                /\ calls[p].total_width >= 0
                /\ n = 0 => calls[p].total_width = 0

\* C9: the spacing layout measures exactly the characters it draws, draws
\* them in text order, the i-th at the start x plus the widths and spacings
\* of the characters before it, and the last one ends at start x + total width.
C9_GlyphsAdvanceByWidthPlusSpacing ==
    \A p \in Procs :
        (Returned(calls[p]) /\ calls[p].branch = "spaced") =>
            LET text == calls[p].text
                n == Len(text)
                glyphs == calls[p].img.glyphs
                widths == calls[p].char_widths
                spacing == ConfigOf(calls[p]).letter_spacing
            IN  /\ Len(glyphs) = n
                /\ Len(widths) = n
                /\ \A i \in 1..n :
                       /\ glyphs[i].s = <<text[i]>>
                       /\ widths[i] = measure[text[i]]
                       /\ glyphs[i].x = calls[p].x0 + PartialSum(widths, spacing, i - 1)
                /\ n >= 1 => glyphs[n].x + widths[n] = calls[p].x0 + calls[p].total_width

\* A spaced text whose first two characters have different widths.
C9_Witness ==
    \E p \in Procs :
        /\ Returned(calls[p])
        /\ calls[p].branch = "spaced"
        /\ Len(calls[p].text) >= 3
        /\ calls[p].char_widths[1] # calls[p].char_widths[2]

\* C10 as stated: under every layout configuration, letter_spacing 0
\* included, every glyph is drawn at y = anchor y - 25.
C10_EveryGlyphAtFixedOffset ==
    \A p \in Procs :
        Returned(calls[p]) =>
            \A i \in 1..Len(calls[p].img.glyphs) :
                calls[p].img.glyphs[i].y = ConfigOf(calls[p]).text_position[2] - YOffset

\* C10 as amended: with letter_spacing > 0 every glyph is drawn at
\* y = anchor y - 25 whatever the measured height; with letter_spacing = 0 the
\* text is drawn whole at y = anchor y - floor(text height / 2).
C10_FixedOffsetWhenSpaced ==
    \A p \in Procs :
        Returned(calls[p]) =>
            LET config == ConfigOf(calls[p])
                glyphs == calls[p].img.glyphs
            IN  /\ config.letter_spacing > 0 =>
                       /\ calls[p].branch = "spaced"
                       /\ \A i \in 1..Len(glyphs) :
                              glyphs[i].y = config.text_position[2] - YOffset
                /\ config.letter_spacing = 0 =>
                       /\ calls[p].branch = "plain"
                       /\ \A i \in 1..Len(glyphs) :
                              glyphs[i].y = config.text_position[2]
                                                - (TextHeight(calls[p].text) \div 2)

\* A spaced text of several glyphs was drawn.
C10_Witness ==
    \E p \in Procs :
        /\ Returned(calls[p])
        /\ ConfigOf(calls[p]).letter_spacing > 0
        /\ Len(calls[p].img.glyphs) >= 2

====
